---- MODULE Spec2Model ----
(***************************************************************************)
(* DatabaseProcessor (metadata.py): a column mapping loaded from a JSON    *)
(* file, rename_columns and apply_categorical_mapping over a table.        *)
(*                                                                         *)
(* A string is a sequence of one-character strings, so that                *)
(* str.replace, str.isdigit, float() and the f-string are computed         *)
(* character by character.  A float is a pair <<m, e>> standing for        *)
(* m * 10^(-e), with no trailing zero in the fraction (m % 10 # 0 or       *)
(* e = 0), so two floats are equal exactly when the pairs are equal.       *)
(***************************************************************************)
EXTENDS Integers, Sequences, FiniteSets, TLC

\* ---------------------------------------------------------------- bounds
\* Cells of a table (columns times rows).
MaxCells == 2
\* Category codes in one configuration file, all entries together.
MaxCodes == 2
\* Entries of column_mappings.
MaxEntries == 2

\* ---------------------------------------------------------------- values
Names == {"sex", "gender"}
Types == {"categorical", "numeric"}
\* "categories": null, or an object of code -> description in file order.
Null == [null |-> TRUE, items |-> <<>>]
Cats(t) == [null |-> FALSE, items |-> t]

NumCell(m, e) == [k |-> "num", n |-> <<m, e>>, s |-> <<>>]
StrCell(chars) == [k |-> "str", n |-> <<0, 0>>, s |-> chars]

\* The cells a column may hold: the number 1.0 and the string "1: M".
CellPool == {NumCell(1, 0), StrCell(<<"1", ":", " ", "M">>)}

\* The (code, description) pairs a category table may hold.
PairPool ==
    { [code |-> <<"1">>, desc |-> <<"M">>],
      [code |-> <<"1", ".", "0">>, desc |-> <<"F">>],
      [code |-> <<"1", ":", " ", "M">>, desc |-> <<"F">>],
      [code |-> <<"1", ".", "2", ".", "3">>, desc |-> <<"M">>] }

Digits == {"0", "1", "2", "3", "4", "5", "6", "7", "8", "9"}
DigitVal ==
    [c \in Digits |->
        CASE c = "0" -> 0 [] c = "1" -> 1 [] c = "2" -> 2 [] c = "3" -> 3
          [] c = "4" -> 4 [] c = "5" -> 5 [] c = "6" -> 6 [] c = "7" -> 7
          [] c = "8" -> 8 [] c = "9" -> 9]

\* ------------------------------------------------------- string functions
\* code.replace('.', ''): every dot is removed.
RemoveDots(code) == SelectSeq(code, LAMBDA c : c # ".")

\* str.isdigit(): non-empty and every character a digit.
IsDigit(chars) == Len(chars) > 0 /\ \A i \in 1..Len(chars) : chars[i] \in Digits

\* The test of the substitution loop: code.replace('.', '').isdigit().
IsNumericCode(code) == IsDigit(RemoveDots(code))

DotCount(chars) == Cardinality({i \in 1..Len(chars) : chars[i] = "."})

RECURSIVE DigitsValue(_)
DigitsValue(chars) ==
    IF chars = <<>> THEN 0
    ELSE 10 * DigitsValue(SubSeq(chars, 1, Len(chars) - 1)) + DigitVal[chars[Len(chars)]]

RECURSIVE Normalize(_, _)
Normalize(m, e) ==
    IF e > 0 /\ m % 10 = 0 THEN Normalize(m \div 10, e - 1) ELSE <<m, e>>

\* float(code) for a code of digits and dots: digits with at most one dot
\* convert, anything else raises ValueError.
ParseFloat(code) ==
    IF DotCount(code) > 1 \/ ~IsDigit(RemoveDots(code))
    THEN [ok |-> FALSE, n |-> <<0, 0>>]
    ELSE LET fraclen == IF DotCount(code) = 0 THEN 0
                        ELSE Len(code) - (CHOOSE i \in 1..Len(code) : code[i] = ".")
         IN [ok |-> TRUE, n |-> Normalize(DigitsValue(RemoveDots(code)), fraclen)]

\* f"{code}: {description}"
Rewrite(code, description) == code \o <<":", " ">> \o description

\* ------------------------------------------------------------ the inputs
\* A category table: an ordered JSON object, so its codes are distinct.
CatTables(n) ==
    {t \in [1..n -> PairPool] : \A i, j \in 1..n : t[i].code = t[j].code => i = j}

\* "categories": a table, an empty object or null.
CatValues == {Null} \cup {Cats(t) : t \in UNION {CatTables(n) : n \in 0..MaxCodes}}

CodeCount(cats) == Len(cats.items)

\* An entry of column_mappings; categories are present only on a categorical
\* entry, null otherwise.
Entries ==
    {e \in [old : Names, new_name : Names, type : Types, categories : CatValues] :
        e.type # "categorical" => e.categories = Null}

RECURSIVE TotalCodes(_)
TotalCodes(cm) ==
    IF cm = <<>> THEN 0 ELSE CodeCount(Head(cm).categories) + TotalCodes(Tail(cm))

\* "column_mappings": an ordered JSON object keyed by the original name, so
\* with no more entries than there are names.
Mappings ==
    {cm \in UNION {[1..n -> Entries] : n \in {m \in 0..MaxEntries : m <= Cardinality(Names)}} :
        /\ \A i, j \in 1..Len(cm) : cm[i].old = cm[j].old => i = j
        /\ TotalCodes(cm) <= MaxCodes}

\* The metadata file: absent, not JSON, or a JSON document.
Files ==
    {[kind |-> "missing", column_mappings |-> <<>>],
     [kind |-> "malformed", column_mappings |-> <<>>]}
    \cup {[kind |-> "json", column_mappings |-> cm] : cm \in Mappings}

\* A table as the caller reads it: distinct column names, columns of one length.
Tables ==
    {t \in UNION {[1..c -> [name : Names, vals : UNION {[1..r -> CellPool] : r \in 0..MaxCells}]]
                    : c \in 0..Cardinality(Names)} :
        /\ \A i, j \in 1..Len(t) : t[i].name = t[j].name => i = j
        /\ \A i, j \in 1..Len(t) : Len(t[i].vals) = Len(t[j].vals)
        /\ \A i \in 1..Len(t) : Len(t) * Len(t[i].vals) <= MaxCells}

\* ------------------------------------------------------- the processor
ColumnNames(df) == {df[i].name : i \in 1..Len(df)}

\* get_column_mapping: old name -> new_name, in the order of column_mappings.
GetColumnMapping(cm) == [i \in 1..Len(cm) |-> [old |-> cm[i].old, new |-> cm[i].new_name]]

\* The entries of get_column_mapping whose old name is a column of df.
ExistingMapping(cm, df) ==
    SelectSeq(GetColumnMapping(cm), LAMBDA e : e.old \in ColumnNames(df))

\* A rename that applies the entries one after the other, so that a column
\* renamed by one entry is renamed again by a later one.
RECURSIVE DfRenameOneByOne(_, _)
DfRenameOneByOne(df, mapping) ==
    IF mapping = <<>> THEN df
    ELSE DfRenameOneByOne(
            [i \in 1..Len(df) |->
                IF df[i].name = Head(mapping).old
                THEN [name |-> Head(mapping).new, vals |-> df[i].vals]
                ELSE df[i]],
            Tail(mapping))

\* df.rename(columns=mapping): every column whose label is a key takes the
\* key's value, all at once; the values are carried over.
DfRename(df, mapping) ==
    [i \in 1..Len(df) |->
        IF \E k \in 1..Len(mapping) : mapping[k].old = df[i].name
        THEN [name |-> mapping[CHOOSE k \in 1..Len(mapping) : mapping[k].old = df[i].name].new,
              vals |-> df[i].vals]
        ELSE df[i]]

\* rename_columns: the table handed in (as the call leaves it) and the table
\* returned.
RenameColumns(cm, df) ==
    LET existing_mapping == ExistingMapping(cm, df)
    IN IF existing_mapping = <<>>
       THEN [df |-> df, ret |-> df, notice |-> "no matching columns"]
       ELSE [df |-> df, ret |-> DfRename(df, existing_mapping), notice |-> "renamed"]

\* Truth value of info['categories']: null and the empty object are false.
Truthy(cats) == ~cats.null /\ Len(cats.items) > 0

\* A lookup table keyed by the original column name instead of new_name.
GetCategoricalColumnsByOldName(cm) ==
    LET qual == {i \in 1..Len(cm) : cm[i].type = "categorical" /\ Truthy(cm[i].categories)}
    IN [name \in {cm[i].old : i \in qual} |->
            cm[CHOOSE i \in qual : cm[i].old = name].categories.items]

\* get_categorical_columns: new_name -> categories; a later entry with the
\* same new_name overwrites an earlier one.
GetCategoricalColumns(cm) ==
    LET qual == {i \in 1..Len(cm) : cm[i].type = "categorical" /\ Truthy(cm[i].categories)}
    IN [name \in {cm[i].new_name : i \in qual} |->
            LET last == CHOOSE i \in qual :
                            /\ cm[i].new_name = name
                            /\ \A j \in qual : cm[j].new_name = name => j <= i
            IN cm[last].categories.items]

\* df[column_name]: the columns carrying that label, in table order (a Series
\* when there is one, a DataFrame when the label is repeated).
Select(df, column_name) ==
    LET idx == SelectSeq([i \in 1..Len(df) |-> i], LAMBDA i : df[i].name = column_name)
    IN [i \in 1..Len(idx) |-> df[idx[i]].vals]

DataKind(cols) == IF Len(cols) = 1 THEN "Series" ELSE "DataFrame"

\* A cell equals a float when it is that number, a string when it is that string.
EqualsNumber(cell, n) == cell.k = "num" /\ cell.n = n
EqualsString(cell, chars) == cell.k = "str" /\ cell.s = chars

IsPrefix(p, chars) == Len(p) <= Len(chars) /\ SubSeq(chars, 1, Len(p)) = p

\* A replace with regex=True: the code is replaced where it starts the cell's
\* string, whatever follows it.
ReplaceStringRegex(cols, chars, new) ==
    [c \in 1..Len(cols) |->
        [r \in 1..Len(cols[c]) |->
            IF cols[c][r].k = "str" /\ IsPrefix(chars, cols[c][r].s)
            THEN StrCell(new \o SubSeq(cols[c][r].s, Len(chars) + 1, Len(cols[c][r].s)))
            ELSE cols[c][r]]]

\* series.replace(numeric_code, new) and series.replace(code, new).
ReplaceNumber(cols, n, new) ==
    [c \in 1..Len(cols) |->
        [r \in 1..Len(cols[c]) |->
            IF EqualsNumber(cols[c][r], n) THEN StrCell(new) ELSE cols[c][r]]]
ReplaceString(cols, chars, new) ==
    [c \in 1..Len(cols) |->
        [r \in 1..Len(cols[c]) |->
            IF EqualsString(cols[c][r], chars) THEN StrCell(new) ELSE cols[c][r]]]

\* One turn of the loop over categories.items(); float(code) may raise.
ApplyCode(st, pair) ==
    IF st.raised THEN st
    ELSE IF IsNumericCode(pair.code)
         THEN IF ParseFloat(pair.code).ok
              THEN [raised |-> FALSE,
                    cols |-> ReplaceNumber(st.cols, ParseFloat(pair.code).n,
                                           Rewrite(pair.code, pair.desc))]
              ELSE [raised |-> TRUE, cols |-> st.cols]
         ELSE [raised |-> FALSE,
               cols |-> ReplaceString(st.cols, pair.code, Rewrite(pair.code, pair.desc))]

\* The loop run from the last code of the category table to the first.
RECURSIVE ApplyCodesReversed(_, _)
ApplyCodesReversed(st, categories) ==
    IF categories = <<>> THEN st
    ELSE ApplyCode(ApplyCodesReversed(st, Tail(categories)), Head(categories))

\* The loop, in the order of the category table.
RECURSIVE ApplyCodes(_, _)
ApplyCodes(st, categories) ==
    IF categories = <<>> THEN st
    ELSE ApplyCodes(ApplyCode(st, Head(categories)), Tail(categories))

NoneResult == [kind |-> "None", cols |-> <<>>]
Data(cols) == [kind |-> DataKind(cols), cols |-> cols]
Raised(error) == [kind |-> error, cols |-> <<>>]

\* df[column_name] = values, by the caller: the columns with that label take
\* the given values, in order.
AssignColumn(df, column_name, cols) ==
    LET idx == SelectSeq([i \in 1..Len(df) |-> i], LAMBDA i : df[i].name = column_name)
    IN [i \in 1..Len(df) |->
            IF df[i].name = column_name
            THEN [name |-> df[i].name,
                  vals |-> cols[CHOOSE k \in 1..Len(idx) : idx[k] = i]]
            ELSE df[i]]

\* A substitution without the test for a missing column: df[column_name]
\* raises KeyError.
ApplyWithoutColumnCheck(cm, df, column_name) ==
    LET categorical_cols == GetCategoricalColumns(cm)
    IN IF column_name \notin ColumnNames(df)
       THEN [df |-> df, ret |-> Raised("KeyError")]
       ELSE IF column_name \notin DOMAIN categorical_cols
            THEN [df |-> df, ret |-> Data(Select(df, column_name))]
            ELSE LET end == ApplyCodes([raised |-> FALSE, cols |-> Select(df, column_name)],
                                       categorical_cols[column_name])
                 IN IF end.raised
                    THEN [df |-> df, ret |-> Raised("ValueError")]
                    ELSE [df |-> df, ret |-> Data(end.cols)]

\* A substitution that writes the rewritten values back into the table.
ApplyInPlace(cm, df, column_name) ==
    IF column_name \notin ColumnNames(df)
    THEN [df |-> df, ret |-> NoneResult]
    ELSE LET categorical_cols == GetCategoricalColumns(cm)
         IN IF column_name \notin DOMAIN categorical_cols
            THEN [df |-> df, ret |-> Data(Select(df, column_name))]
            ELSE LET end == ApplyCodes([raised |-> FALSE, cols |-> Select(df, column_name)],
                                       categorical_cols[column_name])
                 IN IF end.raised
                    THEN [df |-> df, ret |-> Raised("ValueError")]
                    ELSE [df |-> AssignColumn(df, column_name, end.cols),
                          ret |-> Data(end.cols)]

\* apply_categorical_mapping: the table handed in (as the call leaves it) and
\* what the call returns or raises.
ApplyCategoricalMapping(cm, df, column_name) ==
    IF column_name \notin ColumnNames(df)
    THEN [df |-> df, ret |-> NoneResult]
    ELSE LET categorical_cols == GetCategoricalColumns(cm)
         IN IF column_name \notin DOMAIN categorical_cols
            THEN [df |-> df, ret |-> Data(Select(df, column_name))]
            ELSE LET end == ApplyCodes([raised |-> FALSE, cols |-> Select(df, column_name)],
                                       categorical_cols[column_name])
                 IN IF end.raised
                    THEN [df |-> df, ret |-> Raised("ValueError")]
                    ELSE [df |-> df, ret |-> Data(end.cols)]

\* load_metadata and __init__: the mapping, or the error raised.
LoadMetadata(f) ==
    CASE f.kind = "missing" -> [pc |-> "FileNotFoundError", column_mappings |-> <<>>]
      [] f.kind = "malformed" -> [pc |-> "ValueError", column_mappings |-> <<>>]
      [] OTHER -> [pc |-> "ready", column_mappings |-> f.column_mappings]

\* ------------------------------------------------------------ the state
VARIABLES
    pc,               \* "new", "ready", or the error the constructor raised
    file,             \* the metadata file
    column_mappings,  \* self.column_mappings
    df,               \* the caller's table
    df0,              \* the table as first read
    call,             \* the last call: operation, target column, the table handed
                      \* in before (arg) and after (left) the call
    result,           \* what the last call returned or raised
    first,            \* what the first apply_categorical_mapping returned
    renamed           \* whether the caller has renamed the columns

vars == <<pc, file, column_mappings, df, df0, call, result, first, renamed>>

NoCall == [op |-> "none", col |-> "", arg |-> <<>>, left |-> <<>>]

Init ==
    /\ pc = "new"
    /\ file \in Files
    /\ column_mappings = <<>>
    /\ df \in Tables
    /\ df0 = df
    /\ call = NoCall
    /\ result = NoneResult
    /\ first = NoneResult
    /\ renamed = FALSE

\* DatabaseProcessor(metadata_file)
Construct ==
    /\ pc = "new"
    /\ pc' = LoadMetadata(file).pc
    /\ column_mappings' = LoadMetadata(file).column_mappings
    /\ UNCHANGED <<file, df, df0, call, result, first, renamed>>

\* df = processor.rename_columns(df), the caller's first step when taken
Rename ==
    /\ pc = "ready"
    /\ ~renamed
    /\ call.op = "none"
    /\ LET out == RenameColumns(column_mappings, df)
       IN /\ df' = out.ret
          /\ call' = [op |-> "rename", col |-> "", arg |-> df, left |-> out.df]
          /\ result' = [kind |-> "DataFrame", cols |-> <<>>]
    /\ renamed' = TRUE
    /\ UNCHANGED <<pc, file, column_mappings, df0, first>>

\* processor.apply_categorical_mapping(df, column_name)
Apply(column_name) ==
    /\ pc = "ready"
    /\ call.op \in {"none", "rename"}
    /\ LET out == ApplyCategoricalMapping(column_mappings, df, column_name)
       IN /\ df' = out.df
          /\ call' = [op |-> "apply", col |-> column_name, arg |-> df, left |-> out.df]
          /\ result' = out.ret
          /\ first' = out.ret
    /\ UNCHANGED <<pc, file, column_mappings, df0, renamed>>

\* df[column_name] = result; processor.apply_categorical_mapping(df, column_name):
\* the substitution repeated on its own output
Reapply ==
    /\ pc = "ready"
    /\ call.op = "apply"
    /\ result.kind \in {"Series", "DataFrame"}
    /\ LET assigned == AssignColumn(df, call.col, result.cols)
           out == ApplyCategoricalMapping(column_mappings, assigned, call.col)
       IN /\ df' = out.df
          /\ call' = [op |-> "reapply", col |-> call.col, arg |-> assigned, left |-> out.df]
          /\ result' = out.ret
    /\ UNCHANGED <<pc, file, column_mappings, df0, first, renamed>>

Next ==
    \/ Construct
    \/ Rename
    \/ \E column_name \in Names : Apply(column_name)
    \/ Reapply

Spec == Init /\ [][Next]_vars

\* ------------------------------------------------------------ the claims
HasKey(cm, name) == \E k \in 1..Len(cm) : cm[k].old = name
EntryOf(cm, name) == cm[CHOOSE k \in 1..Len(cm) : cm[k].old = name]

\* C1: rename_columns returns a table with the same number of columns, in the
\* same order and with the same cell values; a column whose original name is a
\* key of the mapping carries that entry's new_name, every other column keeps
\* its name; entries whose original name is not a column have no effect, and
\* with no column name among the keys the returned table is the input.
C1_RenameContract ==
    call.op = "rename" =>
        /\ pc = "ready"
        /\ Len(df) = Len(call.arg)
        /\ \A i \in 1..Len(call.arg) :
              /\ df[i].vals = call.arg[i].vals
              /\ df[i].name = IF HasKey(column_mappings, call.arg[i].name)
                              THEN EntryOf(column_mappings, call.arg[i].name).new_name
                              ELSE call.arg[i].name
        /\ ((\A i \in 1..Len(call.arg) : ~HasKey(column_mappings, call.arg[i].name))
                => df = call.arg)

\* C1 happens: a column with cells was renamed while an entry of the mapping
\* names no column of the table.
C1_Witness ==
    /\ call.op = "rename"
    /\ \E i \in 1..Len(df) : df[i].name # call.arg[i].name /\ Len(df[i].vals) > 0
    /\ \E k \in 1..Len(column_mappings) :
          column_mappings[k].old \notin ColumnNames(call.arg)

\* An entry under new_name that is categorical with a non-empty category table.
HasCategoricalEntry(cm, name) ==
    \E k \in 1..Len(cm) :
        /\ cm[k].new_name = name
        /\ cm[k].type = "categorical"
        /\ ~cm[k].categories.null
        /\ cm[k].categories.items # <<>>

\* C3: for a column name that is not a column of the table,
\* apply_categorical_mapping returns None without raising and leaves the table
\* as it was, whether or not the mapping has a categorical entry of that name.
C3_AbsentColumn ==
    (call.op = "apply" /\ call.col \notin ColumnNames(call.arg)) =>
        /\ result = NoneResult
        /\ call.left = call.arg
        /\ df = call.arg

\* C3 happens: the absent column has a categorical entry and the table has cells.
C3_Witness ==
    /\ call.op = "apply"
    /\ call.col \notin ColumnNames(call.arg)
    /\ HasCategoricalEntry(column_mappings, call.col)
    /\ \E i \in 1..Len(call.arg) : Len(call.arg[i].vals) > 0

\* C4: for a column that exists but has no categorical entry (no entry with
\* that new_name, an entry of another type, or a categorical entry whose
\* category table is null or empty), apply_categorical_mapping returns the
\* column's values unchanged, cell for cell, and does not raise.
C4_NoCategoricalEntry ==
    (/\ call.op = "apply"
     /\ call.col \in ColumnNames(call.arg)
     /\ ~HasCategoricalEntry(column_mappings, call.col)) =>
        /\ result.kind \in {"Series", "DataFrame"}
        /\ Len(result.cols) = Cardinality({i \in 1..Len(call.arg) : call.arg[i].name = call.col})
        /\ \A c \in 1..Len(result.cols) :
              \E i \in 1..Len(call.arg) :
                  /\ call.arg[i].name = call.col
                  /\ Cardinality({j \in 1..i : call.arg[j].name = call.col}) = c
                  /\ result.cols[c] = call.arg[i].vals

\* C4 happens: the column has cells, and the mapping holds a categorical entry
\* under the column's new_name whose category table is null or empty, while
\* another entry has a category table.
C4_Witness ==
    /\ call.op = "apply"
    /\ call.col \in ColumnNames(call.arg)
    /\ ~HasCategoricalEntry(column_mappings, call.col)
    /\ \E i \in 1..Len(call.arg) : call.arg[i].name = call.col /\ Len(call.arg[i].vals) > 0
    /\ \E k \in 1..Len(column_mappings) :
          /\ column_mappings[k].new_name = call.col
          /\ column_mappings[k].type = "categorical"
    /\ \E k \in 1..Len(column_mappings) : column_mappings[k].categories.items # <<>>

\* C5: apply_categorical_mapping leaves the source table as it was: every
\* column, the target included, has its name and its original cells, and the
\* rewritten values are in the returned sequence only; the loaded mapping is
\* the one read from the file after any call.
C5_SourceTableUnchanged ==
    /\ call.op \in {"apply", "reapply"} => (call.left = call.arg /\ df = call.arg)
    /\ call.op = "rename" => call.left = call.arg
    /\ pc = "ready" => column_mappings = file.column_mappings

\* C5 happens: the call returned rewritten values for the target column and
\* the table has another column.
C5_Witness ==
    /\ call.op = "apply"
    /\ result.kind = "Series"
    /\ \E i \in 1..Len(call.arg) :
          /\ call.arg[i].name = call.col
          /\ result.cols[1] # call.arg[i].vals
    /\ Len(call.arg) > 1

\* The category table the substituter uses for a column, and the column's
\* cells before the call.
TableOf(name) == GetCategoricalColumns(column_mappings)[name]
Original == Select(call.arg, call.col)
Substituted ==
    /\ call.op = "apply"
    /\ call.col \in ColumnNames(call.arg)
    /\ HasCategoricalEntry(column_mappings, call.col)

\* Numeric as the documentation has it: all digits once at most one decimal
\* point is removed.
NumericAsDocumented(code) == DotCount(code) <= 1 /\ IsDigit(RemoveDots(code))

\* A cell equals a code: as a float for a numeric code, as the raw string otherwise.
EqualsCode(cell, code) ==
    IF NumericAsDocumented(code)
    THEN EqualsNumber(cell, ParseFloat(code).n)
    ELSE EqualsString(cell, code)

\* C2: with the column present and a categorical entry, the call returns a
\* sequence as long as the column in which every cell equal to a registered
\* code is "{code}: {description}" for that code and every other cell is the
\* original cell.
C2_SubstitutionContract ==
    Substituted =>
        /\ result.kind \in {"Series", "DataFrame"}
        /\ Len(result.cols) = Len(Original)
        /\ \A c \in 1..Len(Original) :
              /\ Len(result.cols[c]) = Len(Original[c])
              /\ \A r \in 1..Len(Original[c]) :
                    LET T == TableOf(call.col)
                        hits == {k \in 1..Len(T) : EqualsCode(Original[c][r], T[k].code)}
                    IN IF hits = {}
                       THEN result.cols[c][r] = Original[c][r]
                       ELSE \E k \in hits :
                               result.cols[c][r] = StrCell(Rewrite(T[k].code, T[k].desc))

\* C6: once the mapping is loaded, no call of rename_columns or
\* apply_categorical_mapping ends in an error, whatever the table, the target
\* column and the category codes.
C6_NoErrorAfterLoad ==
    pc = "ready" => result.kind \in {"None", "Series", "DataFrame"}

\* C9: a code is compared as a float exactly when it is all digits once at most
\* one decimal point is removed; any other code, "1.2.3" included, is compared
\* by exact equality with the raw cell, so the call ends with one of the two
\* comparisons made for each code.
C9_NumericDetection ==
    Substituted =>
        /\ \A k \in 1..Len(TableOf(call.col)) :
              IsNumericCode(TableOf(call.col)[k].code)
                  <=> NumericAsDocumented(TableOf(call.col)[k].code)
        /\ result.kind \in {"Series", "DataFrame"}

\* The comparison the loop makes for a code.
LoopMatches(cell, code) ==
    IF IsNumericCode(code)
    THEN ParseFloat(code).ok /\ EqualsNumber(cell, ParseFloat(code).n)
    ELSE EqualsString(cell, code)

\* C8 as stated: when two registered codes match the same cell, the cell in
\* the result carries the rewrite of the later code in iteration order.
C8_LaterCodeWins ==
    (Substituted /\ result.kind \in {"Series", "DataFrame"}) =>
        \A c \in 1..Len(Original) : \A r \in 1..Len(Original[c]) :
            \A i, j \in 1..Len(TableOf(call.col)) :
                (/\ i < j
                 /\ LoopMatches(Original[c][r], TableOf(call.col)[i].code)
                 /\ LoopMatches(Original[c][r], TableOf(call.col)[j].code))
                    => result.cols[c][r] =
                         StrCell(Rewrite(TableOf(call.col)[j].code, TableOf(call.col)[j].desc))

\* C8 amended: when two registered codes match the same cell, the cell in the
\* result never carries the later code's rewrite; it carries the rewrite of the
\* first matching code in iteration order, unless that rewrite is itself a
\* registered code.
C8_EarlierCodeWins ==
    (Substituted /\ result.kind \in {"Series", "DataFrame"}) =>
        \A c \in 1..Len(Original) : \A r \in 1..Len(Original[c]) :
            LET T == TableOf(call.col)
                hits == {k \in 1..Len(T) : LoopMatches(Original[c][r], T[k].code)}
            IN Cardinality(hits) >= 2 =>
                  LET i0 == CHOOSE i \in hits : \A k \in hits : i <= k
                  IN /\ \A j \in hits \ {i0} :
                            result.cols[c][r] # StrCell(Rewrite(T[j].code, T[j].desc))
                     /\ (\A k \in 1..Len(T) : T[k].code # Rewrite(T[i0].code, T[i0].desc))
                            => result.cols[c][r] = StrCell(Rewrite(T[i0].code, T[i0].desc))

\* C8 happens: a cell matched by two codes was rewritten.
C8_Witness ==
    /\ Substituted
    /\ result.kind = "Series"
    /\ \E r \in 1..Len(Original[1]) :
          /\ Cardinality({k \in 1..Len(TableOf(call.col)) :
                            LoopMatches(Original[1][r], TableOf(call.col)[k].code)}) >= 2
          /\ result.cols[1][r] # Original[1][r]

\* No rewritten string of the column's category table is a registered code.
NoCollision(name) ==
    HasCategoricalEntry(column_mappings, name) =>
        \A i, j \in 1..Len(TableOf(name)) :
            Rewrite(TableOf(name)[i].code, TableOf(name)[i].desc) # TableOf(name)[j].code

\* C7: when no rewritten string equals a registered code of the column,
\* putting the returned values in the column and substituting again returns
\* the values of the first call.
C7_Idempotent ==
    (call.op = "reapply" /\ NoCollision(call.col)) => result = first

\* C7 happens: the first call rewrote a cell and the second call has run on
\* the rewritten column.
C7_Witness ==
    /\ call.op = "reapply"
    /\ NoCollision(call.col)
    /\ HasCategoricalEntry(column_mappings, call.col)
    /\ \E i \in 1..Len(call.arg) :
          call.arg[i].name = call.col /\ call.arg[i].vals # df0[i].vals

\* A categorical entry with a category table whose new_name is not its
\* original name, no entry having that original name as new_name.
RenamedCategorical(e) ==
    /\ e.type = "categorical"
    /\ ~e.categories.null
    /\ e.categories.items # <<>>
    /\ e.new_name # e.old
    /\ \A k \in 1..Len(column_mappings) : column_mappings[k].new_name # e.old

\* Before any rename, substitution under the original name rewrites no cell.
C10_OriginalNameFindsNothing ==
    (call.op = "apply" /\ ~renamed) =>
        \A k \in 1..Len(column_mappings) :
            (/\ RenamedCategorical(column_mappings[k])
             /\ call.col = column_mappings[k].old
             /\ call.col \in ColumnNames(call.arg))
                => result = Data(Original)

\* After rename_columns, substitution under new_name rewrites every cell
\* that equals a code of the entry.
C10_NewNameRewrites ==
    (call.op = "apply" /\ renamed) =>
        \A k \in 1..Len(column_mappings) :
            LET e == column_mappings[k]
            IN (/\ RenamedCategorical(e)
                /\ call.col = e.new_name
                /\ e.old \in ColumnNames(df0))
                   => \A i \in 1..Len(df0) : \A r \in 1..Len(df0[i].vals) :
                         (/\ df0[i].name = e.old
                          /\ \E p \in 1..Len(e.categories.items) :
                                EqualsCode(df0[i].vals[r], e.categories.items[p].code))
                             => /\ result.kind \in {"Series", "DataFrame"}
                                /\ result.cols[Cardinality({j \in 1..i : call.arg[j].name = call.col})][r]
                                      # df0[i].vals[r]

\* C10: the category table is looked up by new_name, never by the original
\* name: for a categorical entry whose new_name differs from its original name
\* (no other entry having that original name as new_name), substitution on the
\* table not yet renamed under the original name rewrites no cell, and
\* rename_columns followed by substitution under new_name rewrites the
\* matching cells.
C10_LookupByNewName == C10_OriginalNameFindsNothing /\ C10_NewNameRewrites

====
